---- MODULE Spec2Model ----
(***************************************************************************)
(* Model of vidsum (package video_summary): the batch driver of            *)
(* summarize_video.py, the chunk planner / materializer and the merge      *)
(* reconciler of video_processing_utils.py, and the argument handling of   *)
(* cli.py.                                                                 *)
(*                                                                         *)
(* Times are exact rationals counted in ticks; one second is Ticks ticks,  *)
(* Ticks is even so that overlap / 2.0 is a whole number of ticks.         *)
(***************************************************************************)
EXTENDS Integers, Sequences, FiniteSets, TLC

\* ------------------------------------------------------------------ bounds
Res == 2                 \* half the number of ticks per second
MaxTargetSec == 4        \* largest --max_chunk_duration the planner runs draw
MaxDurSec == 10          \* longest video (seconds) the planner runs draw
MaxVideoSec == 5         \* longest video (seconds) the batch runs probe
MaxMergeChunks == 3      \* most segments the merge runs draw

Ticks == 2 * Res

\* ------------------------------------------------- program constants
\* MIN_CHUNK_PROCESSING_THRESHOLD_SECONDS = 1.0
MIN_CHUNK_PROCESSING_THRESHOLD_SECONDS == 1
BASE_TEMP_CHUNK_DIR == ".tmp_chunks"

\* A value that may be None is a sequence: << >> for None, << x >> for x.
None == << >>
Some(x) == << x >>
Value(o) == o[1]

Min(a, b) == IF a <= b THEN a ELSE b
Max(a, b) == IF a >= b THEN a ELSE b

\* math.ceil(a / b) for a > 0, b > 0
Ceil(a, b) == (a + b - 1) \div b

\* ------------------------------------------------------------------
\* create_video_chunks, the loop over k (lines 102-135).  dur, core and pad
\* are in ticks.  fails is the set of segment numbers k+1 whose ffmpeg run
\* raises ffmpeg.Error.  acc is chunk_details_list; tried lists the segment
\* numbers for which ffmpeg was run.
RECURSIVE ChunkLoop(_, _, _, _, _, _, _, _, _)
ChunkLoop(k, n, dur, core, pad, ext, fails, acc, tried) ==
  IF k >= n THEN [chunks |-> acc, tried |-> tried]
  ELSE
    LET base_segment_start_time == k * core
        base_segment_end_time == Min((k + 1) * core, dur)
    IN
    IF base_segment_start_time >= dur
       \/ base_segment_start_time >= base_segment_end_time
    THEN [chunks |-> acc, tried |-> tried]                      \* break
    ELSE
      LET ffmpeg_final_ss == Max(0, base_segment_start_time - pad)
          ffmpeg_final_end_point == Min(dur, base_segment_end_time + pad)
          ffmpeg_final_t == ffmpeg_final_end_point - ffmpeg_final_ss
      IN
      IF ffmpeg_final_t < MIN_CHUNK_PROCESSING_THRESHOLD_SECONDS * Ticks
      THEN ChunkLoop(k + 1, n, dur, core, pad, ext, fails, acc, tried)   \* continue
      ELSE
        LET current_chunk_number == Len(acc) + 1
            temp_chunk_filename == "chunk_" \o ToString(current_chunk_number) \o ext
        IN
        IF (k + 1) \in fails
        THEN ChunkLoop(k + 1, n, dur, core, pad, ext, fails, acc, Append(tried, k + 1))
        ELSE ChunkLoop(k + 1, n, dur, core, pad, ext, fails,
                       Append(acc, <<temp_chunk_filename, ffmpeg_final_ss,
                                     ffmpeg_final_ss + ffmpeg_final_t>>),
                       Append(tried, k + 1))

\* overlap_padding = total_overlap_duration / 2.0 (line 84), in ticks.
OverlapPadding(overlap_duration) == overlap_duration * Res

\* The number of base segments, rounded down instead of up.
NumBaseSegmentsFloor(dur, core) ==
  LET n == dur \div core IN IF n = 0 THEN 1 ELSE n

\* The number of base segments the loop runs over (lines 97-99).
NumBaseSegments(dur, core) ==
  LET n == Ceil(dur, core) IN IF n = 0 THEN 1 ELSE n

\* The single whole-file chunk of lines 92-94 and 139-141.
SingleChunk(dur, base, ext) == <<(base \o "_chunk_1" \o ext), 0, dur>>

\* create_video_chunks with the split taken from duration = target on.
create_video_chunks_SplitAtTarget(dur, max_chunk_duration, overlap_duration, base, ext, fails) ==
  IF max_chunk_duration > 0 /\ dur >= max_chunk_duration * Ticks
  THEN
    LET base_content_length == (max_chunk_duration - overlap_duration) * Ticks
    IN
    IF base_content_length <= 0
    THEN [branch |-> "overlap_fallback",
          chunks |-> << SingleChunk(dur, base, ext) >>, tried |-> << >>]
    ELSE
      LET r == ChunkLoop(0, NumBaseSegments(dur, base_content_length), dur,
                         base_content_length, OverlapPadding(overlap_duration),
                         ext, fails, << >>, << >>)
      IN [branch |-> "split", chunks |-> r.chunks, tried |-> r.tried]
  ELSE [branch |-> "single",
        chunks |-> << SingleChunk(dur, base, ext) >>, tried |-> << >>]

\* create_video_chunks (lines 76-142).  dur in ticks; max_chunk_duration and
\* overlap_duration in whole seconds, as argparse delivers them.  The result
\* says which branch ran: "split" (the loop), "overlap_fallback" (lines
\* 89-94) or "single" (lines 136-141).
create_video_chunks(dur, max_chunk_duration, overlap_duration, base, ext, fails) ==
  IF max_chunk_duration > 0 /\ dur > max_chunk_duration * Ticks
  THEN
    LET total_overlap_duration == overlap_duration * Ticks
        overlap_padding == OverlapPadding(overlap_duration)
        base_content_length == max_chunk_duration * Ticks - total_overlap_duration
    IN
    IF base_content_length <= 0
    THEN [branch |-> "overlap_fallback",
          chunks |-> << SingleChunk(dur, base, ext) >>, tried |-> << >>]
    ELSE
      LET r == ChunkLoop(0, NumBaseSegments(dur, base_content_length), dur,
                         base_content_length, overlap_padding, ext, fails,
                         << >>, << >>)
      IN [branch |-> "split", chunks |-> r.chunks, tried |-> r.tried]
  ELSE [branch |-> "single",
        chunks |-> << SingleChunk(dur, base, ext) >>, tried |-> << >>]

\* ------------------------------------------------------------------ files
\* A directory's content is a set of [name, content] records, one per name.
Exists(files, name) == \E f \in files : f.name = name
Read(files, name) == (CHOOSE f \in files : f.name = name).content
WriteFile(files, name, content) ==
  {f \in files : f.name # name} \cup {[name |-> name, content |-> content]}

NoDir == [exists |-> FALSE, files |-> {}]
EmptyDir == [exists |-> TRUE, files |-> {}]

\* os.path.join
Join2(a, b) == a \o "/" \o b

\* ------------------------------------------------------------------ videos
\* The discovered videos, in the sorted order discover_video_files returns.
PathPool ==
  << [dir |-> "a", base |-> "x", ext |-> ".mp4"],
     [dir |-> "a", base |-> "y", ext |-> ".mp4"],
     [dir |-> "b", base |-> "x", ext |-> ".mp4"] >>

\* process_single_video lines 191-193
video_basename_no_ext(v) == v.base
video_temp_dir(v) == Join2(BASE_TEMP_CHUNK_DIR, video_basename_no_ext(v))

\* The batches the runs draw: two discovered videos, either with different
\* base names or with the same base name in different directories.
VideoLists ==
  { << PathPool[1], PathPool[2] >>, << PathPool[1], PathPool[3] >> }

\* Model names are kept as their characters.
DEFAULT_MODEL ==
  << "g", "e", "m", "i", "n", "i", "-", "2", ".", "0", "-", "f", "l", "a", "s", "h" >>

\* Some --model values: the default, a name spelling Flash with a capital,
\* and two names without it.
PRO_MODEL == << "g", "e", "m", "i", "n", "i", "-", "p", "r", "o" >>
ModelNames ==
  { DEFAULT_MODEL,
    << "G", "e", "m", "i", "n", "i", "-", "F", "l", "a", "s", "h" >>,
    << "f", "l", "a", "s", "k" >>,
    PRO_MODEL }

UpperCase ==
  << "A", "B", "C", "D", "E", "F", "G", "H", "I", "J", "K", "L", "M",
     "N", "O", "P", "Q", "R", "S", "T", "U", "V", "W", "X", "Y", "Z" >>
LowerCase ==
  << "a", "b", "c", "d", "e", "f", "g", "h", "i", "j", "k", "l", "m",
     "n", "o", "p", "q", "r", "s", "t", "u", "v", "w", "x", "y", "z" >>

\* str.lower
Lower(str) ==
  [j \in 1..Len(str) |->
     IF \E c \in 1..Len(UpperCase) : UpperCase[c] = str[j]
     THEN LowerCase[CHOOSE c \in 1..Len(UpperCase) : UpperCase[c] = str[j]]
     ELSE str[j]]

\* sub in str
Contains(sub, str) ==
  \E at \in 0..(Len(str) - Len(sub)) :
    \A j \in 1..Len(sub) : str[at + j] = sub[j]

\* The same delay for every model.
SummaryDelaySame(model) == 12

\* _generate_individual_summaries line 119: delay_seconds.
SummaryDelay(model) ==
  IF Contains(<< "f", "l", "a", "s", "h" >>, Lower(model)) THEN 4 ELSE 12

\* The parsed arguments the batch runs draw (cli.py parse_arguments).
ArgChoices ==
  { [max_chunk_duration |-> 2, overlap_duration |-> 0,
     keep_temp_files |-> k, model |-> DEFAULT_MODEL] : k \in BOOLEAN }
  \cup { [max_chunk_duration |-> 2, overlap_duration |-> 0,
          keep_temp_files |-> FALSE, model |-> PRO_MODEL] }

\* What get_video_duration returns: a duration in ticks, or None.
ProbeResults == {None} \cup { Some(s * Ticks) : s \in 1..MaxVideoSec }

\* ------------------------------------------------------------------ remote
\* A types.File returned by upload_video_chunk_and_wait once active; its
\* name is "files/<id>", kept as its components.
FileObject(v, n) ==
  [name |-> << "files", "v" \o ToString(v) \o "c" \o ToString(n) >>]

\* file_object.name.split('/')[-1] if file_object.name else f"unknown_chunk_{i}"
NamePart(file_object, i) ==
  IF file_object.name = << >>
  THEN "unknown_chunk_" \o ToString(i)
  ELSE file_object.name[Len(file_object.name)]

\* f"summary_{name_part}.md"
SummaryFilename(file_object, i) == "summary_" \o NamePart(file_object, i) \o ".md"

\* The text generate_summary_for_resource returns for a handle.
SummaryText(file_object) == "S(" \o file_object.name[Len(file_object.name)] \o ")"

\* The text refine_summary_text returns for a merged text.
RefinedText(text) == "R(" \o text \o ")"

InSeq(x, s) == \E j \in 1..Len(s) : s[j] = x

\* ------------------------------------------------------------------ merge
SEPARATOR == "\n\n---\n\n"

\* "\n\n---\n\n".join(final_summary_parts)
RECURSIVE JoinParts(_)
JoinParts(parts) ==
  IF Len(parts) = 0 THEN ""
  ELSE IF Len(parts) = 1 THEN parts[1]
  ELSE parts[1] \o SEPARATOR \o JoinParts(Tail(parts))

\* The parts taken in the order the summary paths are listed.
RECURSIVE MergePartsByListing(_, _, _, _, _, _)
MergePartsByListing(idx, uploaded, paths, dir, files, unreadable) ==
  IF idx >= Len(paths) THEN << >>
  ELSE
    LET rest == MergePartsByListing(idx + 1, uploaded, paths, dir, files, unreadable)
        hit == { j \in 1..Len(uploaded) :
                   Join2(dir, SummaryFilename(uploaded[j], j - 1)) = paths[idx + 1] }
    IN
    IF hit # {}
       /\ \E j \in hit : /\ Exists(files, SummaryFilename(uploaded[j], j - 1))
                          /\ SummaryFilename(uploaded[j], j - 1) \notin unreadable
    THEN << Read(files, SummaryFilename(uploaded[CHOOSE j \in hit : TRUE], (CHOOSE j \in hit : TRUE) - 1)) >> \o rest
    ELSE rest

\* merge_chunk_summaries lines 170-201: final_summary_parts.  idx is the
\* enumerate index, dir the video_temp_dir, files its content, unreadable
\* the file names whose read raises.
RECURSIVE MergeParts(_, _, _, _, _, _)
MergeParts(idx, uploaded, paths, dir, files, unreadable) ==
  IF idx >= Len(uploaded) THEN << >>
  ELSE
    LET file_object == uploaded[idx + 1]
        expected_summary_filename == SummaryFilename(file_object, idx)
        expected_summary_path == Join2(dir, expected_summary_filename)
        rest == MergeParts(idx + 1, uploaded, paths, dir, files, unreadable)
    IN
    IF InSeq(expected_summary_path, paths)
       /\ Exists(files, expected_summary_filename)
       /\ expected_summary_filename \notin unreadable
    THEN << Read(files, expected_summary_filename) >> \o rest
    ELSE rest

\* f"{video_basename_no_ext}_summary.md" and f"{video_basename_no_ext}_summary_v2.md"
MergedName(base) == base \o "_summary.md"
RefinedName(base) == base \o "_summary_v2.md"

\* merge_chunk_summaries lines 203-210: os.makedirs is reached, and may
\* raise, only when there is something to merge.
MergeRaises(parts, makedirsRaises) == parts # << >> /\ makedirsRaises

\* The merge with the emptiness test of line 203 left out.
MergeWriteAlways(outdir, parts, base, writeFails) ==
  IF writeFails THEN outdir
  ELSE WriteFile(outdir, MergedName(base), JoinParts(parts))

\* merge_chunk_summaries lines 203-217: the output directory after the merge.
MergeWrite(outdir, parts, base, writeFails) ==
  IF parts = << >> THEN outdir
  ELSE IF writeFails THEN outdir
  ELSE WriteFile(outdir, MergedName(base), JoinParts(parts))

\* A refinement that writes its text over the merged file.
RefineOverwrites(outdir, base, r, writeFails) ==
  IF Exists(outdir, MergedName(base)) /\ r = "text" /\ ~writeFails
  THEN WriteFile(outdir, MergedName(base), RefinedText(Read(outdir, MergedName(base))))
  ELSE outdir

\* process_single_video lines 256-280: the output directory after the
\* refinement step; r is what refine_summary_text does ("text", "none",
\* "raise"), writeFails whether writing the refined file raises.
RefineWrite(outdir, base, r, writeFails) ==
  IF Exists(outdir, MergedName(base)) /\ r = "text" /\ ~writeFails
  THEN WriteFile(outdir, RefinedName(base), RefinedText(Read(outdir, MergedName(base))))
  ELSE outdir

\* ------------------------------------------------------------------ loops
\* A loop that gives up at the first item that failed.
LoopStopsAtFailure(idx, n, succeeded) == succeeded /\ idx < n - 1

\* _upload_chunks_to_gemini line 62 and _generate_individual_summaries line
\* 117: whether the loop goes on (sleeps, then the next item) after item idx
\* of n; succeeded tells whether the item's call produced a result.
LoopContinues(idx, n, succeeded) == idx < n - 1

\* _upload_chunks_to_gemini lines 57-60 with every handle kept.
CollectedAlways(list, file_object, active) == Append(list, file_object)

\* _upload_chunks_to_gemini lines 57-60: the loop's list after an upload;
\* active tells whether upload_video_chunk_and_wait returned the handle.
Collected(list, file_object, active) ==
  IF active THEN Append(list, file_object) ELSE list

\* An entry of the log of remote calls and sleeps.
Event(kind, name, secs) == [kind |-> kind, name |-> name, secs |-> secs]

\* The remote deletions stopping at the first one that fails.
RECURSIVE DeleteLoopStopsAtFailure(_, _, _)
DeleteLoopStopsAtFailure(uploaded, delFails, done) ==
  IF uploaded = << >> THEN done
  ELSE LET name == Head(uploaded).name
           now == [done EXCEPT !.requested = @ \cup {name}]
       IN IF name \in delFails
          THEN [now EXCEPT !.failed = @ \cup {name}, !.raised = TRUE]
          ELSE DeleteLoopStopsAtFailure(Tail(uploaded), delFails, now)

\* _cleanup_processing_resources lines 147-153: files.delete is called for
\* each handle in turn; one that raises is caught and warned about, and the
\* loop goes on.
RECURSIVE DeleteLoop(_, _, _)
DeleteLoop(uploaded, delFails, done) ==
  IF uploaded = << >> THEN done
  ELSE LET name == Head(uploaded).name
           now == [done EXCEPT !.requested = @ \cup {name}]
       IN IF name \in delFails
          THEN DeleteLoop(Tail(uploaded), delFails, [now EXCEPT !.failed = @ \cup {name}])
          ELSE DeleteLoop(Tail(uploaded), delFails, now)

\* _cleanup_processing_resources lines 145-153: the names files.delete was
\* called with, those it failed for, and whether an error left the loop.
CleanupDeletes(uploaded, delFails) ==
  DeleteLoop(uploaded, delFails, [requested |-> {}, failed |-> {}, raised |-> FALSE])

\* ================================================================== state
VARIABLES
  args,                            \* the parsed argparse.Namespace
  videos,                          \* videos_to_process
  vi,                              \* position of main's for loop (1-based; 0 before)
  pc,                              \* where the program is
  pending,                         \* the exception in flight: "none", "exception", "interrupt"
  video_duration,                  \* process_single_video locals
  chunk_details_list,
  uploaded_file_objects,
  individual_summary_file_paths,
  idx,                             \* the running loop's enumerate index
  loop_list,                       \* the running loop's own result list
  tmp,                             \* the temp directories, by path
  out,                             \* the output directory's files
  phases,                          \* the phases the current video has entered
  extractTried,                    \* segment numbers ffmpeg was run for
  uploadTried,                     \* chunk paths upload was called with
  summaryTried,                    \* handle names a summary was requested for
  acquired,                        \* handle names uploaded and active, this video
  deleteRequested,                 \* handle names files.delete was called with
  warned,                          \* what cleanup failed on and warned about
  events,                          \* the remote calls and the sleeps, in order
  mergedLog,                       \* the merged summaries the batch has written
  plan,                            \* a run of parse_arguments and create_video_chunks alone
  mh                               \* a run of merge_chunk_summaries alone

vars == << args, videos, vi, pc, pending, video_duration, chunk_details_list,
           uploaded_file_objects, individual_summary_file_paths, idx, loop_list,
           tmp, out, phases, extractTried, uploadTried, summaryTried, acquired,
           deleteRequested, warned, events, mergedLog, plan, mh >>

harness == << plan, mh >>
Idle == [pc |-> "idle"]

locals == << video_duration, chunk_details_list, uploaded_file_objects,
             individual_summary_file_paths, idx, loop_list >>
observed == << extractTried, uploadTried, summaryTried, acquired, deleteRequested,
              warned, events >>

TempDirs == { video_temp_dir(PathPool[j]) : j \in 1..Len(PathPool) }

CurVideo == videos[vi]
CurBase == video_basename_no_ext(CurVideo)
CurTemp == video_temp_dir(CurVideo)

\* The output directory as a run may find it: empty, or holding the merged
\* summary of an earlier run for the first video.
OutChoices == { {}, { [name |-> MergedName("x"), content |-> "old"] } }

Init ==
  /\ args \in ArgChoices
  /\ videos = << >>
  /\ vi = 0
  /\ pc = "start"
  /\ pending = "none"
  /\ video_duration = None
  /\ chunk_details_list = << >>
  /\ uploaded_file_objects = << >>
  /\ individual_summary_file_paths = << >>
  /\ idx = 0
  /\ loop_list = << >>
  /\ tmp = [d \in TempDirs |-> NoDir]
  /\ out \in OutChoices
  /\ phases = << >>
  /\ extractTried = << >>
  /\ uploadTried = << >>
  /\ summaryTried = << >>
  /\ acquired = {}
  /\ deleteRequested = {}
  /\ warned = {}
  /\ events = << >>
  /\ mergedLog = {}
  /\ plan = Idle
  /\ mh = Idle

\* The current video's phase log after phase ph was entered by the loop turn
\* at hand (its first turn logs it), and after the except clause of line 282
\* caught an error ("error" follows the phase that raised).
Entered(ph) == IF idx = 0 THEN Append(phases, ph) ELSE phases
Caught(log) == Append(log, "error")

\* ------------------------------------------------------------------ main
\* What the API key file may be when initialize_gemini opens it.
KeyFileStates == {"missing", "empty", "unreadable", "present"}

\* cli.py initialize_gemini lines 75-99: the client, or None when the key
\* file is missing, empty or unreadable, or when genai.Client raises.
initialize_gemini(keyFile, clientRaises) ==
  IF keyFile # "present" THEN None
  ELSE IF clientRaises THEN None
  ELSE Some("client")

\* main lines 301-314: without a client main returns before the discovery;
\* without a video it returns before the loop.
Startup ==
  /\ pc = "start"
  /\ \E keyFile \in KeyFileStates, clientRaises \in BOOLEAN,
        found \in VideoLists \cup { << >> } :
       LET gemini_client == initialize_gemini(keyFile, clientRaises) IN
       IF gemini_client = None
       THEN /\ pc' = "no_client"
            /\ videos' = videos
       ELSE /\ videos' = found
            /\ pc' = IF found = << >> THEN "no_videos" ELSE "main"
  /\ UNCHANGED << harness, mergedLog, args, vi, pending, locals, tmp, out, phases, observed >>

\* The exit status of the interpreter (lines 321-322): 0 when main returns,
\* 1 when an exception leaves it, 130 when a KeyboardInterrupt does.
ExitStatus ==
  IF pc = "crashed" THEN 1
  ELSE IF pc = "interrupted" THEN 130
  ELSE 0

\* main lines 316-319: the for loop takes the next video, or ends.
MainLoop ==
  /\ pc = "main"
  /\ IF vi < Len(videos)
     THEN /\ vi' = vi + 1
          /\ pc' = "setup"
     ELSE /\ vi' = vi
          /\ pc' = "done"
  /\ UNCHANGED << harness, mergedLog, args, videos, pending, locals, tmp, out, phases, observed >>

\* process_single_video lines 189-200: a clean temp directory.  rmtree or
\* makedirs may raise; nothing catches it, so it leaves main.
Setup ==
  /\ pc = "setup"
  /\ video_duration' = None
  /\ chunk_details_list' = << >>
  /\ uploaded_file_objects' = << >>
  /\ individual_summary_file_paths' = << >>
  /\ idx' = 0
  /\ loop_list' = << >>
  /\ phases' = << "setup" >>
  /\ extractTried' = << >>
  /\ uploadTried' = << >>
  /\ summaryTried' = << >>
  /\ acquired' = {}
  /\ deleteRequested' = {}
  /\ warned' = {}
  /\ events' = << >>
  /\ \E raises \in BOOLEAN :
       IF raises
       THEN /\ pc' = "crashed"
            /\ pending' = "exception"
            /\ tmp' = tmp
       ELSE /\ pc' = "probe"
            /\ pending' = "none"
            /\ tmp' = [tmp EXCEPT ![CurTemp] = EmptyDir]
  /\ UNCHANGED << harness, mergedLog, args, videos, vi, out >>

\* process_single_video lines 202-205: get_video_duration catches every
\* error itself and returns None; the video is then skipped by a plain return.
Probe ==
  /\ pc = "probe"
  /\ phases' = Append(phases, "probe")
  /\ \E d \in ProbeResults :
       /\ video_duration' = d
       /\ pc' = IF d = None THEN "main" ELSE "chunk"
  /\ UNCHANGED << harness, mergedLog, args, videos, vi, pending, chunk_details_list,
                  uploaded_file_objects, individual_summary_file_paths, idx,
                  loop_list, tmp, out, observed >>

\* The chunk files create_video_chunks leaves in the temp directory.
RECURSIVE WithChunkFiles(_, _)
WithChunkFiles(files, chunks) ==
  IF chunks = << >> THEN files
  ELSE WithChunkFiles(WriteFile(files, chunks[1][1], "media"), Tail(chunks))

\* The sets of segment numbers whose extraction the runs let fail.
FailChoices(n) == { {} } \cup { {k} : k \in 1..n } \cup { 1..n }

\* Phase 1, lines 213-219.  An error other than ffmpeg.Error (shutil.copy
\* failing, say) reaches the except clause of line 282.
Chunk ==
  /\ pc = "chunk"
  /\ \E raises \in BOOLEAN, fails \in FailChoices(MaxVideoSec) :
       LET r == create_video_chunks(Value(video_duration), args.max_chunk_duration,
                                    args.overlap_duration, CurBase, CurVideo.ext, fails)
       IN
       IF raises
       THEN /\ phases' = Caught(Append(phases, "chunk"))
            /\ pc' = "cleanup"
            /\ UNCHANGED << chunk_details_list, tmp, extractTried >>
       ELSE /\ phases' = Append(phases, "chunk")
            /\ chunk_details_list' = r.chunks
            /\ extractTried' = r.tried
            /\ tmp' = [tmp EXCEPT ![CurTemp].files = WithChunkFiles(@, r.chunks)]
            /\ pc' = IF r.chunks = << >> THEN "cleanup" ELSE "upload"
  /\ idx' = 0
  /\ loop_list' = << >>
  /\ UNCHANGED << harness, mergedLog, args, videos, vi, pending, video_duration, uploaded_file_objects,
                  individual_summary_file_paths, out, uploadTried, summaryTried,
                  acquired, deleteRequested, warned, events >>

\* Phase 2, lines 221-227 and _upload_chunks_to_gemini lines 52-64: one turn
\* of the loop.  The handles collected so far live in the loop's own list
\* and reach uploaded_file_objects only when the loop returns.
Upload ==
  /\ pc = "upload"
  /\ uploadTried' = Append(uploadTried, chunk_details_list[idx + 1][1])
  /\ \E o \in {"active", "failed", "raise"} :
       LET file_object == FileObject(vi, idx + 1)
           collected == Collected(loop_list, file_object, o = "active")
           called == Append(events, Event("upload",
                                          << "chunk", chunk_details_list[idx + 1][1] >>, 0))
       IN
       /\ events' = IF o = "active"
                    THEN Append(called, Event("active", file_object.name, 0))
                    ELSE called
       /\ IF o = "raise"
          THEN /\ phases' = Caught(Entered("upload"))
               /\ pc' = "cleanup"
               /\ loop_list' = << >>
               /\ UNCHANGED << uploaded_file_objects, idx, acquired >>
          ELSE /\ phases' = Entered("upload")
               /\ acquired' = IF o = "active" THEN acquired \cup {file_object.name}
                              ELSE acquired
               /\ IF LoopContinues(idx, Len(chunk_details_list), o = "active")
                  THEN /\ pc' = "upload_sleep"
                       /\ loop_list' = collected
                       /\ UNCHANGED << uploaded_file_objects, idx >>
                  ELSE /\ uploaded_file_objects' = uploaded_file_objects \o collected
                       /\ loop_list' = << >>
                       /\ idx' = 0
                       /\ pc' = IF uploaded_file_objects' = << >>
                                THEN "cleanup" ELSE "summary"
  /\ UNCHANGED << harness, mergedLog, args, videos, vi, pending, video_duration, chunk_details_list,
                  individual_summary_file_paths, tmp, out, extractTried,
                  summaryTried, deleteRequested, warned >>

\* time.sleep(4) of line 63, then the next turn.
UploadSleep ==
  /\ pc = "upload_sleep"
  /\ events' = Append(events, Event("upload_sleep", << >>, 4))
  /\ idx' = idx + 1
  /\ pc' = "upload"
  /\ UNCHANGED << harness, mergedLog, args, videos, vi, pending, video_duration, chunk_details_list,
                  uploaded_file_objects, individual_summary_file_paths, loop_list,
                  tmp, out, phases, extractTried, uploadTried, summaryTried,
                  acquired, deleteRequested, warned >>

\* Phase 3, lines 229-236 and _generate_individual_summaries lines 87-122:
\* one turn of the loop.  A text is written to its summary file; an IOError
\* of that write is caught and the path is not recorded.
Summary ==
  /\ pc = "summary"
  /\ summaryTried' = Append(summaryTried, uploaded_file_objects[idx + 1].name)
  /\ events' = Append(events, Event("summary", uploaded_file_objects[idx + 1].name, 0))
  /\ \E o \in {"text", "none", "raise"}, writeFails \in BOOLEAN :
       LET file_object == uploaded_file_objects[idx + 1]
           summary_text == SummaryText(file_object)
           summary_md_filename == SummaryFilename(file_object, idx)
           summary_md_path == Join2(CurTemp, summary_md_filename)
           saved == o = "text" /\ ~writeFails
           collected == IF saved THEN Append(loop_list, summary_md_path) ELSE loop_list
       IN
       /\ (o # "text") => ~writeFails
       /\ IF o = "raise"
          THEN /\ phases' = Caught(Entered("summary"))
               /\ pc' = "cleanup"
               /\ loop_list' = << >>
               /\ UNCHANGED << individual_summary_file_paths, idx, tmp >>
          ELSE /\ phases' = Entered("summary")
               /\ tmp' = IF saved
                         THEN [tmp EXCEPT ![CurTemp].files =
                                 WriteFile(@, summary_md_filename, summary_text)]
                         ELSE tmp
               /\ IF LoopContinues(idx, Len(uploaded_file_objects), o = "text")
                  THEN /\ pc' = "summary_sleep"
                       /\ loop_list' = collected
                       /\ UNCHANGED << individual_summary_file_paths, idx >>
                  ELSE /\ individual_summary_file_paths' =
                            individual_summary_file_paths \o collected
                       /\ loop_list' = << >>
                       /\ idx' = 0
                       /\ pc' = IF individual_summary_file_paths' = << >>
                                THEN "cleanup" ELSE "merge"
  /\ UNCHANGED << harness, mergedLog, args, videos, vi, pending, video_duration, chunk_details_list,
                  uploaded_file_objects, out, extractTried, uploadTried,
                  acquired, deleteRequested, warned >>

\* time.sleep(delay_seconds) of line 121, then the next turn.
SummarySleep ==
  /\ pc = "summary_sleep"
  /\ events' = Append(events, Event("summary_sleep", << >>, SummaryDelay(args.model)))
  /\ idx' = idx + 1
  /\ pc' = "summary"
  /\ UNCHANGED << harness, mergedLog, args, videos, vi, pending, video_duration, chunk_details_list,
                  uploaded_file_objects, individual_summary_file_paths, loop_list,
                  tmp, out, phases, extractTried, uploadTried, summaryTried,
                  acquired, deleteRequested, warned >>

\* A stop signal (KeyboardInterrupt) delivered while a loop sleeps between
\* two calls: it is no Exception, so line 282 does not catch it; the finally
\* clause of line 287 runs and the interrupt then leaves main.
StopSignal ==
  /\ pc \in {"upload_sleep", "summary_sleep"}
  /\ pending' = "interrupt"
  /\ phases' = Append(phases, "stop")
  /\ pc' = "cleanup"
  /\ loop_list' = << >>
  /\ UNCHANGED << harness, mergedLog, args, videos, vi, video_duration, chunk_details_list,
                  uploaded_file_objects, individual_summary_file_paths, idx,
                  tmp, out, observed >>

\* Phase 4, lines 238-247: merge_chunk_summaries.  Read errors and the
\* IOError of the final write are caught inside it; os.makedirs of the
\* output directory (line 210) is not, and reaches line 282.
Merge ==
  /\ pc = "merge"
  /\ \E unreadable \in { {}, { f.name : f \in tmp[CurTemp].files } },
        makedirsRaises \in BOOLEAN, writeFails \in BOOLEAN :
       LET parts == MergeParts(0, uploaded_file_objects, individual_summary_file_paths,
                               CurTemp, tmp[CurTemp].files, unreadable)
       IN
       /\ IF MergeRaises(parts, makedirsRaises)
          THEN /\ phases' = Caught(Append(phases, "merge"))
               /\ pc' = "cleanup"
               /\ out' = out
          ELSE /\ phases' = Append(phases, "merge")
               /\ pc' = "refine"
               /\ out' = MergeWrite(out, parts, CurBase, writeFails)
       /\ mergedLog' =
            IF ~MergeRaises(parts, makedirsRaises) /\ parts # << >> /\ ~writeFails
            THEN mergedLog \cup { [video |-> vi, name |-> MergedName(CurBase),
                                   content |-> JoinParts(parts)] }
            ELSE mergedLog
  /\ UNCHANGED << harness, args, videos, vi, pending, locals, tmp, observed >>

\* Phase 4.5, lines 249-280: every error of the refinement is caught by the
\* inner except clause of line 277.
Refine ==
  /\ pc = "refine"
  /\ phases' = Append(phases, "refine")
  /\ \E r \in {"text", "none", "raise"}, writeFails \in BOOLEAN :
       /\ (r # "text" \/ ~Exists(out, MergedName(CurBase))) => ~writeFails
       /\ ~Exists(out, MergedName(CurBase)) => r = "none"
       /\ out' = RefineWrite(out, CurBase, r, writeFails)
  /\ pc' = "cleanup"
  /\ UNCHANGED << harness, mergedLog, args, videos, vi, pending, locals, tmp, observed >>

\* The temp directory removed whatever the keep flag says.
CleanupTempAlways(dir, keep_temp_files, rmtreeFails) ==
  IF dir.exists /\ ~rmtreeFails THEN NoDir ELSE dir

\* _cleanup_processing_resources lines 155-162: the temp directory after it.
CleanupTemp(dir, keep_temp_files, rmtreeFails) ==
  IF dir.exists /\ ~keep_temp_files /\ ~rmtreeFails THEN NoDir ELSE dir

\* The sets of handle names whose deletion the runs let fail: none, or the
\* first handle's.
DeleteFailChoices(uploaded) ==
  { {} } \cup { { uploaded[j].name } : j \in (1..Len(uploaded)) \cap {1} }

\* _cleanup_processing_resources lines 144-162: the remote deletions, then
\* the temp directory.  An OSError of rmtree is caught and warned about.
cleanup_processing_resources(uploaded, path, dir, keep_temp_files, delFails, rmtreeFails) ==
  LET d == CleanupDeletes(uploaded, delFails) IN
  IF d.raised
  THEN [requested |-> d.requested, warned |-> d.failed, dir |-> dir, raised |-> TRUE]
  ELSE [requested |-> d.requested,
        warned |-> d.failed \cup
                   (IF dir.exists /\ ~keep_temp_files /\ rmtreeFails
                    THEN { << "rmtree", path >> } ELSE {}),
        dir |-> CleanupTemp(dir, keep_temp_files, rmtreeFails),
        raised |-> FALSE]

\* Phase 5, the finally clause of lines 287-292 and
\* _cleanup_processing_resources.  A failing files.delete and a failing
\* rmtree are caught.  An interrupt in flight leaves main afterwards.
Cleanup ==
  /\ pc = "cleanup"
  /\ phases' = Append(phases, "cleanup")
  /\ \E delFails \in DeleteFailChoices(uploaded_file_objects),
        rmtreeFails \in BOOLEAN :
       LET r == cleanup_processing_resources(uploaded_file_objects, CurTemp, tmp[CurTemp],
                                             args.keep_temp_files, delFails, rmtreeFails)
       IN
       /\ (args.keep_temp_files) => ~rmtreeFails
       /\ deleteRequested' = deleteRequested \cup r.requested
       /\ warned' = r.warned
       /\ tmp' = [tmp EXCEPT ![CurTemp] = r.dir]
       /\ pc' = IF r.raised THEN "crashed"
                ELSE IF pending = "interrupt" THEN "interrupted"
                ELSE "main"
  /\ UNCHANGED << harness, mergedLog, args, videos, vi, pending, locals, out, extractTried,
                  uploadTried, summaryTried, acquired, events >>

Next ==
  \/ Startup
  \/ MainLoop
  \/ Setup
  \/ Probe
  \/ Chunk
  \/ Upload
  \/ UploadSleep
  \/ Summary
  \/ SummarySleep
  \/ StopSignal
  \/ Merge
  \/ Refine
  \/ Cleanup

Spec == Init /\ [][Next]_vars

\* ================================================== the planner alone
\* The validation replacing only an overlap above the target.
ValidatedOverlapAboveOnly(max_chunk_duration, overlap_duration) ==
  IF max_chunk_duration > 0 /\ overlap_duration > max_chunk_duration
  THEN Max(0, max_chunk_duration - 1)
  ELSE overlap_duration

\* parse_arguments lines 61-66: the overlap after validation.
ValidatedOverlap(max_chunk_duration, overlap_duration) ==
  IF max_chunk_duration > 0 /\ overlap_duration >= max_chunk_duration
  THEN Max(0, max_chunk_duration - 1)
  ELSE overlap_duration

\* The pipeline at rest, for the runs of one function alone.
PipelineIdle ==
  /\ args = [max_chunk_duration |-> 0, overlap_duration |-> 0,
             keep_temp_files |-> FALSE, model |-> DEFAULT_MODEL]
  /\ videos = << >>
  /\ vi = 0
  /\ pc = "idle"
  /\ pending = "none"
  /\ video_duration = None
  /\ chunk_details_list = << >>
  /\ uploaded_file_objects = << >>
  /\ individual_summary_file_paths = << >>
  /\ idx = 0
  /\ loop_list = << >>
  /\ tmp = [d \in TempDirs |-> NoDir]
  /\ out = {}
  /\ phases = << >>
  /\ extractTried = << >>
  /\ uploadTried = << >>
  /\ summaryTried = << >>
  /\ acquired = {}
  /\ deleteRequested = {}
  /\ warned = {}
  /\ events = << >>
  /\ mergedLog = {}

pipeline == << args, videos, vi, pc, pending, video_duration, chunk_details_list,
               uploaded_file_objects, individual_summary_file_paths, idx,
               loop_list, tmp, out, phases, extractTried, uploadTried,
               summaryTried, acquired, deleteRequested, warned, events,
               mergedLog >>

\* The command line gives any target and overlap (whole seconds); the probe
\* gives any duration, whole seconds or not.  given_overlap keeps the
\* overlap as typed, branch the branch create_video_chunks took.
InitPlan ==
  /\ PipelineIdle
  /\ mh = Idle
  /\ plan \in { [pc |-> "parse",
                 dur |-> d,
                 max_chunk_duration |-> t,
                 overlap_duration |-> o,
                 given_overlap |-> o,
                 fails |-> {},
                 branch |-> "none",
                 result |-> << >>] :
                 d \in 1..(MaxDurSec * Ticks),
                 t \in (-1)..MaxTargetSec,
                 o \in 0..MaxTargetSec }

\* cli.py parse_arguments, the validation of lines 61-66.
ParseArguments ==
  /\ plan.pc = "parse"
  /\ plan' = [plan EXCEPT
                !.pc = "call",
                !.overlap_duration = ValidatedOverlap(plan.max_chunk_duration,
                                                      plan.overlap_duration)]
  /\ UNCHANGED << pipeline, mh >>

\* create_video_chunks applied to the validated arguments; fails are the
\* segments whose extraction fails.
PlanChunks ==
  /\ plan.pc = "call"
  /\ \E fails \in FailChoices(2) :
       LET r == create_video_chunks(plan.dur, plan.max_chunk_duration,
                                    plan.overlap_duration, "x", ".mp4", fails)
       IN plan' = [plan EXCEPT
                     !.pc = "done",
                     !.fails = fails,
                     !.branch = r.branch,
                     !.result = r.chunks]
  /\ UNCHANGED << pipeline, mh >>

NextPlan == ParseArguments \/ PlanChunks

SpecPlan == InitPlan /\ [][NextPlan]_vars

\* ==================================================== the merge alone
\* The injective sequences over a set: its orderings.
Orderings(S) ==
  { f \in [1..Cardinality(S) -> S] :
      \A a, b \in 1..Cardinality(S) : a # b => f[a] # f[b] }

\* The ascending sequence of a set of numbers.
RECURSIVE Ascending(_)
Ascending(S) ==
  IF S = {} THEN << >>
  ELSE LET m == CHOOSE x \in S : \A y \in S : x <= y
       IN << m >> \o Ascending(S \ {m})

MergeDir == video_temp_dir(PathPool[1])
MergeBase == video_basename_no_ext(PathPool[1])

\* The handles of the segments segs, in the order the segments were cut.
HandlesOf(segs) == [j \in 1..Cardinality(segs) |-> FileObject(1, Ascending(segs)[j])]

\* The summary file of segment n's handle among the uploaded handles of segs.
ArtifactName(segs, n) ==
  SummaryFilename(FileObject(1, n),
                  (CHOOSE j \in 1..Cardinality(segs) : Ascending(segs)[j] = n) - 1)

\* merge_chunk_summaries is given: the handles of the segments whose upload
\* succeeded, in segment order; the paths of some of their summary files,
\* listed in any order; a temp directory holding some of those files.
InitMerge ==
  /\ PipelineIdle
  /\ plan = Idle
  /\ \E segs \in SUBSET (1..MaxMergeChunks) :
     \E listed \in SUBSET segs :
     \E ondisk \in SUBSET listed :
     \E order \in Orderings(listed) :
     \E old \in OutChoices :
       mh = [pc |-> "call",
             segs |-> segs,
             uploaded |-> HandlesOf(segs),
             paths |-> [j \in 1..Cardinality(listed) |->
                          Join2(MergeDir, ArtifactName(segs, order[j]))],
             files |-> { [name |-> ArtifactName(segs, n),
                          content |-> SummaryText(FileObject(1, n))] : n \in ondisk },
             unreadable |-> {},
             before |-> old,
             outdir |-> old,
             raised |-> FALSE]

\* merge_chunk_summaries lines 170-217.
MergeCall ==
  /\ mh.pc = "call"
  /\ \E unreadable \in SUBSET { f.name : f \in mh.files },
        makedirsRaises \in BOOLEAN, writeFails \in BOOLEAN :
       LET parts == MergeParts(0, mh.uploaded, mh.paths, MergeDir, mh.files, unreadable)
       IN mh' = [mh EXCEPT
                   !.pc = IF writeFails THEN "done_unwritten" ELSE "done",
                   !.unreadable = unreadable,
                   !.raised = MergeRaises(parts, makedirsRaises),
                   !.outdir = IF MergeRaises(parts, makedirsRaises) THEN mh.outdir
                              ELSE MergeWrite(mh.outdir, parts, MergeBase, writeFails)]
  /\ UNCHANGED << pipeline, plan >>

NextMerge == MergeCall

SpecMerge == InitMerge /\ [][NextMerge]_vars

\* ================================================================== claims
\* Where a video's processing has ended: process_single_video returned
\* (pc = "main" or "done" with vi >= 1) or an exception left it.
VideoEnded == vi >= 1 /\ pc \in {"main", "done", "crashed", "interrupted"}

\* Phase ph was cut short by an error or by a stop signal.
AbortedIn(ph) ==
  \E j \in 1..(Len(phases) - 1) :
    phases[j] = ph /\ phases[j + 1] \in {"error", "stop"}

\* Phase ph has been entered and is over.
PhaseOver(ph) ==
  /\ InSeq(ph, phases)
  /\ pc \notin {ph, ph \o "_sleep"}

\* C1: for every video process_single_video starts working on, the cleanup
\* phase has run by the time processing of that video ends, whatever way it
\* ended.
C1_CleanupBeforeEnd == VideoEnded => InSeq("cleanup", phases)

\* C2: an unexpected error in any phase of one video is caught inside that
\* video's boundary (none leaves main), and the batch ends only after every
\* video of the sorted list was taken up.
C2_ErrorStaysInsideVideo ==
  /\ pc # "crashed"
  /\ pc = "done" => vi = Len(videos)

\* C3: when a video is aborted in the upload or the summary phase, by an
\* error or by a stop signal, then once cleanup has run, deletion has been
\* requested for every handle uploaded and activated for that video.
C3_AbortedHandlesDeleted ==
  (VideoEnded /\ InSeq("cleanup", phases)
   /\ (AbortedIn("upload") \/ AbortedIn("summary")))
  => acquired \subseteq deleteRequested

\* The segment numbers of the split branch whose window is long enough to
\* be cut: the segments the materializer has to attempt.
ViableSegments(dur, max_chunk_duration, overlap_duration) ==
  LET core == (max_chunk_duration - overlap_duration) * Ticks
      pad == overlap_duration * Res
  IN { k \in 1..Ceil(dur, core) :
         Min(dur, k * core + pad) - Max(0, (k - 1) * core - pad)
           >= MIN_CHUNK_PROCESSING_THRESHOLD_SECONDS * Ticks }

Range(seq) == { seq[j] : j \in 1..Len(seq) }

\* C4: a failed chunk never stops the remaining chunks of the video from
\* being attempted (extraction, upload, summary); short of an unexpected
\* error or a stop signal, the video is abandoned before the merge exactly
\* when no chunk was materialized, no upload succeeded or no summary was
\* saved, and cleanup has run when such a video ends.
C4_ChunkFailureNotFatal ==
  /\ (PhaseOver("chunk") /\ ~AbortedIn("chunk")
      /\ Value(video_duration) > args.max_chunk_duration * Ticks)
     => Range(extractTried) =
          ViableSegments(Value(video_duration), args.max_chunk_duration,
                         args.overlap_duration)
  /\ (PhaseOver("upload") /\ ~AbortedIn("upload"))
     => uploadTried = [j \in 1..Len(chunk_details_list) |-> chunk_details_list[j][1]]
  /\ (PhaseOver("summary") /\ ~AbortedIn("summary"))
     => summaryTried = [j \in 1..Len(uploaded_file_objects) |-> uploaded_file_objects[j].name]
  /\ (VideoEnded /\ InSeq("chunk", phases)
      /\ ~AbortedIn("chunk") /\ ~AbortedIn("upload") /\ ~AbortedIn("summary"))
     => /\ InSeq("merge", phases)
           <=> ~(\/ chunk_details_list = << >>
                 \/ uploaded_file_objects = << >>
                 \/ individual_summary_file_paths = << >>)
        /\ InSeq("cleanup", phases)

\* C4's case: of three chunks the first failed to upload, the other two were
\* still uploaded, one of their summaries failed, and the merge was reached.
C4_Witness ==
  /\ pc = "main" /\ InSeq("merge", phases)
  /\ Len(chunk_details_list) = 3
  /\ Len(uploaded_file_objects) = 2
  /\ FileObject(vi, 1).name \notin acquired
  /\ Len(individual_summary_file_paths) = 1

\* ------------------------------------------------------------ the merge
\* Segment n has an artifact: its handle was uploaded, its summary path is
\* listed, and the file is there and readable.
Available(n) ==
  /\ n \in mh.segs
  /\ InSeq(Join2(MergeDir, ArtifactName(mh.segs, n)), mh.paths)
  /\ Exists(mh.files, ArtifactName(mh.segs, n))
  /\ ArtifactName(mh.segs, n) \notin mh.unreadable

\* The texts of the segments that have an artifact, by segment number.
RECURSIVE ExpectedParts(_)
ExpectedParts(n) ==
  IF n > MaxMergeChunks THEN << >>
  ELSE (IF Available(n) THEN << SummaryText(FileObject(1, n)) >> ELSE << >>)
       \o ExpectedParts(n + 1)

C6_EmptyMergeIsNoOp ==
  (mh.pc \in {"done", "done_unwritten"} /\ ExpectedParts(1) = << >>)
  => /\ mh.outdir = mh.before
     /\ ~mh.raised

\* C6's case: handles were uploaded and a summary path is listed, but no
\* artifact can be read, and an older merged file is in the output directory.
C6_Witness ==
  /\ mh.pc = "done"
  /\ mh.segs # {} /\ mh.paths # << >>
  /\ ExpectedParts(1) = << >>
  /\ mh.before # {}
  /\ mh.outdir = mh.before

\* ------------------------------------------------------- the refinement
FileOf(dir, name) == IF Exists(dir, name) THEN Some(Read(dir, name)) ELSE None

\* C7: the refinement step changes the output directory only when the merged
\* artifact exists, and then only by writing the differently named refined
\* file; the merged artifact is the same after the refinement step and after
\* the cleanup that follows it.
C7_RefineKeepsMerged ==
  [][ (pc \in {"refine", "cleanup"})
      => /\ FileOf(out', MergedName(CurBase)) = FileOf(out, MergedName(CurBase))
         /\ (out' # out)
            => /\ pc = "refine"
               /\ Exists(out, MergedName(CurBase))
               /\ RefinedName(CurBase) # MergedName(CurBase)
               /\ \A f \in out' \ out : f.name = RefinedName(CurBase)
               /\ \A f \in out \ out' : f.name = RefinedName(CurBase) ]_vars

\* C7's case: a refinement succeeded and both files are there, the refined
\* one derived from the merged one.
C7_Witness ==
  /\ pc = "cleanup" /\ InSeq("refine", phases)
  /\ Exists(out, MergedName(CurBase))
  /\ Exists(out, RefinedName(CurBase))
  /\ Read(out, RefinedName(CurBase)) = RefinedText(Read(out, MergedName(CurBase)))
  /\ Read(out, MergedName(CurBase)) # "old"

\* ----------------------------------------------------------- the planner
\* A finished planner run within the claims' domain: target > 0,
\* 0 <= overlap < target, every extraction succeeding.
PlanDone ==
  /\ plan.pc = "done"
  /\ plan.max_chunk_duration > 0
  /\ 0 <= plan.overlap_duration
  /\ plan.overlap_duration < plan.max_chunk_duration
  /\ plan.fails = {}

WStart(w) == w[2]
WEnd(w) == w[3]

\* C8: the starts of the returned windows are strictly increasing.
C8_StartsStrictlyIncrease ==
  PlanDone =>
    \A j \in 1..(Len(plan.result) - 1) :
      WStart(plan.result[j]) < WStart(plan.result[j + 1])

\* The planner split the video and the threshold discarded a window.
TailDiscarded ==
  /\ plan.dur > plan.max_chunk_duration * Ticks
  /\ Len(plan.result) <
       Ceil(plan.dur, (plan.max_chunk_duration - plan.overlap_duration) * Ticks)

\* C9 as stated: the last window ends at duration, also when a short tail
\* window is discarded by the threshold.
C9_LastEndIsDuration ==
  PlanDone => WEnd(plan.result[Len(plan.result)]) = plan.dur

\* C9 amended: the last window ends at duration whenever the threshold
\* discarded no window; when it discarded the tail window, the last window
\* ends at duration or before it, by less than the threshold.
C9_LastEndWithinThreshold ==
  PlanDone =>
    LET last == WEnd(plan.result[Len(plan.result)]) IN
    /\ Len(plan.result) >= 1
    /\ last <= plan.dur
    /\ plan.dur - last < MIN_CHUNK_PROCESSING_THRESHOLD_SECONDS * Ticks
    /\ ~TailDiscarded => last = plan.dur

\* C9's case: a split video whose tail window was discarded.
C9_Witness ==
  /\ PlanDone /\ TailDiscarded
  /\ Len(plan.result) >= 2
  /\ WEnd(plan.result[Len(plan.result)]) < plan.dur

\* C10: the first window starts at 0, and for consecutive windows
\* previous.end - next.start lies in [0, overlap]; it is smaller than the
\* overlap only where the earlier window is clipped at the end of the video.
C10_NoGapOverlapBounded ==
  PlanDone =>
    /\ WStart(plan.result[1]) = 0
    /\ \A j \in 1..(Len(plan.result) - 1) :
         LET shared == WEnd(plan.result[j]) - WStart(plan.result[j + 1]) IN
         /\ 0 <= shared
         /\ shared <= plan.overlap_duration * Ticks
         /\ shared < plan.overlap_duration * Ticks => WEnd(plan.result[j]) = plan.dur

\* C11: when the target length is <= 0 (chunking disabled) or the duration
\* is <= the target length, the planner returns exactly one window,
\* (0, duration), whatever the overlap is.
C11_SingleWindowWhenNoSplit ==
  (plan.pc = "done"
   /\ (plan.max_chunk_duration <= 0 \/ plan.dur <= plan.max_chunk_duration * Ticks))
  => /\ Len(plan.result) = 1
     /\ WStart(plan.result[1]) = 0
     /\ WEnd(plan.result[1]) = plan.dur

\* C11's cases: chunking disabled on a long video with an overlap given,
\* and a video exactly as long as the target with an overlap below it.
C11_Witness ==
  /\ plan.pc = "done"
  /\ \/ /\ plan.max_chunk_duration = 0
        /\ plan.overlap_duration > 0
        /\ plan.dur > MaxTargetSec * Ticks
     \/ /\ plan.max_chunk_duration > 0
        /\ plan.dur = plan.max_chunk_duration * Ticks
        /\ plan.overlap_duration > 0
  /\ plan.result = << SingleChunk(plan.dur, "x", ".mp4") >>

\* ------------------------------------------------------------ the process
\* The process has ended: main returned or an exception left it.
ProcessExited == pc \in {"no_client", "no_videos", "done", "crashed", "interrupted"}

\* C12: the process exits with a non-zero status when and only when the
\* fatal startup condition occurs (no client); then no video is discovered
\* or processed; every run that gets past startup exits with status zero.
C12_NonZeroExitOnlyAtStartup ==
  /\ ProcessExited => (ExitStatus # 0 <=> pc = "no_client")
  /\ pc = "no_client" => (videos = << >> /\ vi = 0)

\* C13: after argument validation with a target > 0 the planner's overlap
\* is strictly below the target: an overlap given as >= target is replaced
\* by target - 1 (never below 0), one already < target is left as given;
\* so target - overlap >= 1 and the planner's "overlap too large" fallback
\* is never taken.
C13_ValidatedOverlapBelowTarget ==
  (plan.pc \in {"call", "done"} /\ plan.max_chunk_duration > 0)
  => /\ plan.overlap_duration < plan.max_chunk_duration
     /\ plan.overlap_duration >= 0
     /\ plan.given_overlap >= plan.max_chunk_duration
          => plan.overlap_duration = plan.max_chunk_duration - 1
     /\ plan.given_overlap < plan.max_chunk_duration
          => plan.overlap_duration = plan.given_overlap
     /\ plan.max_chunk_duration - plan.overlap_duration >= 1
     /\ plan.pc = "done" => plan.branch # "overlap_fallback"

\* C13's case: an overlap given equal to the target, cut back by the
\* validation, and a video longer than the target split by the planner.
C13_Witness ==
  /\ plan.pc = "done"
  /\ plan.max_chunk_duration > 1
  /\ plan.given_overlap = plan.max_chunk_duration
  /\ plan.overlap_duration = plan.max_chunk_duration - 1
  /\ plan.dur > plan.max_chunk_duration * Ticks
  /\ plan.branch = "split"

\* ------------------------------------------------------------ the cleanup
\* The cleanup phase of the current video has run and the video has ended.
CleanupRan == VideoEnded /\ InSeq("cleanup", phases)

\* The names of the handles process_single_video holds.
HeldNames == { uploaded_file_objects[j].name : j \in 1..Len(uploaded_file_objects) }

\* C14: at the end of the cleanup phase the video's temp directory has been
\* removed if and only if the retain-temp-files flag is not set; deletion
\* of the held remote handles is requested in both cases.
C14_TempRemovedIffNotKept ==
  CleanupRan
  => /\ ~tmp[CurTemp].exists <=> ~args.keep_temp_files
     /\ HeldNames \subseteq deleteRequested

\* C14 amended: the temp directory has been removed if and only if the flag
\* is not set and the removal did not fail; a failed removal is warned
\* about and leaves the directory.  The held handles' deletion is requested
\* in both cases.
C14_TempRemovedIffNotKeptAndRemovable ==
  CleanupRan
  => /\ ~tmp[CurTemp].exists
          <=> (~args.keep_temp_files /\ << "rmtree", CurTemp >> \notin warned)
     /\ HeldNames \subseteq deleteRequested

\* C14's case: the flag set, cleanup over, the held handles' deletion
\* requested, the temp directory still there with its files.
C14_Witness ==
  /\ CleanupRan
  /\ args.keep_temp_files
  /\ HeldNames # {} /\ HeldNames \subseteq deleteRequested
  /\ tmp[CurTemp].exists /\ tmp[CurTemp].files # {}

\* C18: when deleting one remote handle fails, deletion is still attempted
\* for every remaining held handle and then for the temp directory, and
\* neither a remote deletion failure nor a temp-directory removal failure
\* leaves cleanup as an error.
C18_CleanupToleratesFailures ==
  CleanupRan
  => /\ HeldNames \subseteq deleteRequested
     /\ ~args.keep_temp_files
          => (~tmp[CurTemp].exists \/ << "rmtree", CurTemp >> \in warned)
     /\ pc # "crashed"

\* C18's case: of two or more held handles the first one's deletion failed,
\* the others' deletion was still requested, the removal of the temp
\* directory was tried and failed too, and the batch went on.
C18_Witness ==
  /\ CleanupRan /\ pc = "main"
  /\ Len(uploaded_file_objects) >= 2
  /\ uploaded_file_objects[1].name \in warned
  /\ << "rmtree", CurTemp >> \in warned
  /\ HeldNames \subseteq deleteRequested
  /\ tmp[CurTemp].exists

\* ------------------------------------------------------------ the calls
\* The entries of the log of one kind, in order.
EventsOf(kind) == SelectSeq(events, LAMBDA e : e.kind = kind)

\* C16: a summary is requested for a chunk only after that chunk's upload
\* returned an active handle; a chunk whose upload or activation failed
\* never gets a summary request; the summary requests come in the order of
\* the successful uploads.
C16_SummaryOnlyAfterActiveUpload ==
  /\ \A j \in 1..Len(events) :
       events[j].kind = "summary"
       => \E i \in 1..(j - 1) :
            events[i].kind = "active" /\ events[i].name = events[j].name
  /\ Len(EventsOf("summary")) <= Len(EventsOf("active"))
  /\ \A j \in 1..Len(EventsOf("summary")) :
       EventsOf("summary")[j].name = EventsOf("active")[j].name

\* C16's case: of three chunks the second failed to upload; summaries were
\* requested for the first and the third, in that order, and for no other.
C16_Witness ==
  /\ Len(chunk_details_list) = 3
  /\ Len(EventsOf("upload")) = 3
  /\ FileObject(vi, 2).name \notin acquired
  /\ Len(EventsOf("summary")) = 2
  /\ [j \in 1..2 |-> EventsOf("summary")[j].name]
       = << FileObject(vi, 1).name, FileObject(vi, 3).name >>

\* The calls of one kind and the sleeps of their loop alternate, a call
\* first; a sleep is the last entry only while the next call is due.
Paced(call, sleep) ==
  LET log == SelectSeq(events, LAMBDA e : e.kind \in {call, sleep}) IN
  /\ \A j \in 1..Len(log) : log[j].kind = (IF j % 2 = 1 THEN call ELSE sleep)
  /\ (log # << >> /\ log[Len(log)].kind = sleep) => pc = call

\* A model name contains "flash", in whatever letter case.
IsFlash(model) == Contains(<< "f", "l", "a", "s", "h" >>, Lower(model))

\* C17: within one video a delay lies between every two successive upload
\* calls and between every two successive summary requests, also after a
\* call that failed; no delay follows the last call of a phase; the summary
\* delay of a model named "flash" is shorter than that of any other model.
C17_CallsArePaced ==
  /\ Paced("upload", "upload_sleep")
  /\ Paced("summary", "summary_sleep")
  /\ \A j \in 1..Len(events) :
       events[j].kind \in {"upload_sleep", "summary_sleep"} => events[j].secs > 0
  /\ (events # << >> /\ events[Len(events)].kind = "summary_sleep")
     => LET slept == events[Len(events)].secs IN
        \A other \in ModelNames :
          /\ (IsFlash(args.model) /\ ~IsFlash(other)) => slept < SummaryDelay(other)
          /\ (~IsFlash(args.model) /\ IsFlash(other)) => SummaryDelay(other) < slept

\* C17's case: a model not named flash; an upload failed, the delay and the
\* next upload followed; a summary came back empty, the longer delay and
\* the next request followed; both phases ended on a call.
C17_Witness ==
  /\ pc = "merge"
  /\ ~IsFlash(args.model)
  /\ \E j \in 1..(Len(events) - 2) :
       /\ events[j].kind = "upload"
       /\ events[j + 1].kind = "upload_sleep"
       /\ events[j + 2].kind = "upload"
  /\ Len(EventsOf("summary")) = 2
  /\ Len(individual_summary_file_paths) = 1
  /\ \E j \in 1..Len(events) :
       events[j].kind = "summary_sleep" /\ events[j].secs > 4
  /\ events[Len(events)].kind = "summary"

\* ------------------------------------------------------------ the batch
\* C15: processing one video never creates, overwrites or deletes the state
\* of another video of the batch: the videos' merged artifacts are
\* distinct, so each merged summary is written once, by one video, and
\* still holds that video's content afterwards, to the end of the batch.
C15_VideosShareNoState ==
  /\ \A e \in mergedLog :
       Exists(out, e.name) /\ Read(out, e.name) = e.content
  /\ \A e, f \in mergedLog : e.name = f.name => e.video = f.video

====
